---- MODULE Spec2Model ----
(***************************************************************************)
(* The HTML builders of safevalues (htmlEscape, scriptToHtml,              *)
(* scriptUrlToHtml, htmlEscapeToString, concatHtmls).  A JavaScript string *)
(* is a sequence of one-character strings; every regular-expression        *)
(* replace is an operator that scans the sequence the way                  *)
(* String.prototype.replace does with a global pattern.  One action is one *)
(* call of an exported function: the variables hold the function called   *)
(* (fn), its arguments, whether it has returned (pc) and the value it      *)
(* returned (result).                                                      *)
(***************************************************************************)
EXTENDS Integers, Sequences, FiniteSets, TLC

VARIABLES pc, fn, text, options, script, src, tagOptions, htmls, result, prior, pool

vars == <<pc, fn, text, options, script, src, tagOptions, htmls, result, prior, pool>>

----------------------------------------------------------------------------
(* Bounds of the model *)

MaxLen == 3
MaxAttrLen == 1
MaxHtmls == 3
MaxPool == 3
MaxTrustLen == 1

----------------------------------------------------------------------------
(* Characters and input domains *)

CR == "\r"
LF == "\n"
TAB == "\t"
SP == " "
QUOT == "\""

Structural == {"&", "<", ">", QUOT, "'"}

TextAlphabet == Structural \cup {SP, CR, LF, TAB, "a"}

Strings(A, n) == UNION {[1..k -> A] : k \in 0..n}

\* the inputs the documentation of the options uses
TextSamples ==
  { <<"a", SP, SP, "b">>, <<"a", LF, "b">>, <<"a", TAB, TAB, "b">>,
    <<"a", SP, SP, SP, SP, "b">>, <<"a", CR, LF, SP, SP, "b">>,
    <<LF, SP, TAB, SP>> }

Texts == Strings(TextAlphabet, MaxLen) \cup TextSamples

Booleans == {TRUE, FALSE}

EscapeOptions ==
  [preserveNewlines : Booleans, preserveSpaces : Booleans, preserveTabs : Booleans]

NoOptions ==
  [preserveNewlines |-> FALSE, preserveSpaces |-> FALSE, preserveTabs |-> FALSE]

----------------------------------------------------------------------------
(* The branded wrappers (internals/html_impl etc.) *)

createHtml(s) == [brand |-> "SafeHtml", value |-> s]

unwrapHtml(h) == h.value

unwrapScript(s) == s.value

unwrapResourceUrl(u) == u.value

----------------------------------------------------------------------------
(* String.prototype.replace with a one-character global pattern *)

RECURSIVE ReplaceAll(_, _, _)
ReplaceAll(s, c, rep) ==
  IF s = <<>> THEN <<>>
  ELSE (IF Head(s) = c THEN rep ELSE <<Head(s)>>) \o ReplaceAll(Tail(s), c, rep)

\* a plausible slip: '&' replaced after the other four characters
htmlEscapeToStringAmpLast(t) ==
  ReplaceAll(
    ReplaceAll(
      ReplaceAll(
        ReplaceAll(
          ReplaceAll(t, "<", <<"&", "l", "t", ";">>),
          ">", <<"&", "g", "t", ";">>),
        QUOT, <<"&", "q", "u", "o", "t", ";">>),
      "'", <<"&", "a", "p", "o", "s", ";">>),
    "&", <<"&", "a", "m", "p", ";">>)

\* a plausible slip: the replace of '<' is missing
htmlEscapeToStringNoLt(t) ==
  ReplaceAll(
    ReplaceAll(
      ReplaceAll(
        ReplaceAll(t, "&", <<"&", "a", "m", "p", ";">>),
        ">", <<"&", "g", "t", ";">>),
      QUOT, <<"&", "q", "u", "o", "t", ";">>),
    "'", <<"&", "a", "p", "o", "s", ";">>)

\* a plausible slip: an '&' that already starts an entity is left alone
RECURSIVE EscapeKeepingEntities(_)
EscapeKeepingEntities(s) ==
  IF s = <<>> THEN <<>>
  ELSE IF Head(s) = "&"
    THEN (IF \E e \in { <<"a", "m", "p", ";">>, <<"l", "t", ";">>, <<"g", "t", ";">>,
                        <<"q", "u", "o", "t", ";">>, <<"a", "p", "o", "s", ";">> } :
               /\ Len(e) <= Len(s) - 1
               /\ SubSeq(s, 2, Len(e) + 1) = e
          THEN <<"&">>
          ELSE <<"&", "a", "m", "p", ";">>) \o EscapeKeepingEntities(Tail(s))
  ELSE (CASE Head(s) = "<" -> <<"&", "l", "t", ";">>
          [] Head(s) = ">" -> <<"&", "g", "t", ";">>
          [] Head(s) = QUOT -> <<"&", "q", "u", "o", "t", ";">>
          [] Head(s) = "'" -> <<"&", "a", "p", "o", "s", ";">>
          [] OTHER -> <<Head(s)>>) \o EscapeKeepingEntities(Tail(s))

htmlEscapeToStringIdempotent(t) == EscapeKeepingEntities(t)

htmlEscapeToString(t) ==
  ReplaceAll(
    ReplaceAll(
      ReplaceAll(
        ReplaceAll(
          ReplaceAll(t, "&", <<"&", "a", "m", "p", ";">>),
          "<", <<"&", "l", "t", ";">>),
        ">", <<"&", "g", "t", ";">>),
      QUOT, <<"&", "q", "u", "o", "t", ";">>),
    "'", <<"&", "a", "p", "o", "s", ";">>)

----------------------------------------------------------------------------
(* The three whitespace rewrites of htmlEscape *)

NBSP == <<"&", "#", "1", "6", "0", ";">>

BR == <<"<", "b", "r", ">">>

SpanOpen ==
  <<"<", "s", "p", "a", "n", SP, "s", "t", "y", "l", "e", "=", QUOT,
    "w", "h", "i", "t", "e", "-", "s", "p", "a", "c", "e", ":", "p", "r", "e",
    QUOT, ">">>

SpanClose == <<"<", "/", "s", "p", "a", "n", ">">>

\* replace(/(^|[\r\n\t ]) /g, '$1&#160;'), scanning from index i
RECURSIVE PreserveSpacesFrom(_, _)
PreserveSpacesFrom(s, i) ==
  IF i > Len(s) THEN <<>>
  ELSE IF i = 1 /\ s[i] = SP
    THEN NBSP \o PreserveSpacesFrom(s, i + 1)
  ELSE IF s[i] \in {CR, LF, TAB, SP} /\ i < Len(s) /\ s[i + 1] = SP
    THEN <<s[i]>> \o NBSP \o PreserveSpacesFrom(s, i + 2)
  ELSE <<s[i]>> \o PreserveSpacesFrom(s, i + 1)

\* a plausible slip: the pattern without the boundary group, / /g
PreserveSpacesEvery(s) == ReplaceAll(s, SP, NBSP)

PreserveSpaces(s) == PreserveSpacesFrom(s, 1)

\* replace(/(\r\n|\n|\r)/g, '<br>'), scanning from index i
RECURSIVE PreserveNewlinesFrom(_, _)
PreserveNewlinesFrom(s, i) ==
  IF i > Len(s) THEN <<>>
  ELSE IF s[i] = CR /\ i < Len(s) /\ s[i + 1] = LF
    THEN BR \o PreserveNewlinesFrom(s, i + 2)
  ELSE IF s[i] = LF \/ s[i] = CR
    THEN BR \o PreserveNewlinesFrom(s, i + 1)
  ELSE <<s[i]>> \o PreserveNewlinesFrom(s, i + 1)

\* a plausible slip: the pattern without the \r\n alternative, /(\n|\r)/g
PreserveNewlinesEach(s) == ReplaceAll(ReplaceAll(s, LF, BR), CR, BR)

PreserveNewlines(s) == PreserveNewlinesFrom(s, 1)

\* the length of the run of tabs that starts at index i
RECURSIVE TabRun(_, _)
TabRun(s, i) ==
  IF i > Len(s) \/ s[i] # TAB THEN 0 ELSE 1 + TabRun(s, i + 1)

\* replace(/(\t+)/g, '<span style="white-space:pre">$1</span>'), from index i
RECURSIVE PreserveTabsFrom(_, _)
PreserveTabsFrom(s, i) ==
  IF i > Len(s) THEN <<>>
  ELSE IF s[i] = TAB
    THEN LET n == TabRun(s, i)
         IN  SpanOpen \o SubSeq(s, i, i + n - 1) \o SpanClose
               \o PreserveTabsFrom(s, i + n)
  ELSE <<s[i]>> \o PreserveTabsFrom(s, i + 1)

PreserveTabs(s) == PreserveTabsFrom(s, 1)

\* a plausible slip: the spaces rewritten after the newlines and the tabs
htmlEscapeSpacesLast(t, o) ==
  LET s0 == htmlEscapeToString(t)
      s1 == IF o.preserveNewlines THEN PreserveNewlines(s0) ELSE s0
      s2 == IF o.preserveTabs THEN PreserveTabs(s1) ELSE s1
      s3 == IF o.preserveSpaces THEN PreserveSpaces(s2) ELSE s2
  IN  createHtml(s3)

htmlEscape(t, o) ==
  LET s0 == htmlEscapeToString(t)
      s1 == IF o.preserveSpaces THEN PreserveSpaces(s0) ELSE s0
      s2 == IF o.preserveNewlines THEN PreserveNewlines(s1) ELSE s1
      s3 == IF o.preserveTabs THEN PreserveTabs(s2) ELSE s2
  IN  createHtml(s3)

----------------------------------------------------------------------------
(* Template literals: the value of the source text of a literal *)

HexDigit(c) ==
  CASE c = "0" -> 0 [] c = "1" -> 1 [] c = "2" -> 2 [] c = "3" -> 3
    [] c = "4" -> 4 [] c = "5" -> 5 [] c = "6" -> 6 [] c = "7" -> 7
    [] c = "8" -> 8 [] c = "9" -> 9 [] c = "a" -> 10 [] c = "b" -> 11
    [] c = "c" -> 12 [] c = "d" -> 13 [] c = "e" -> 14 [] c = "f" -> 15

\* String.fromCharCode on the code units the literals of this file use
FromCharCode(n) ==
  CASE n = 34 -> QUOT [] n = 38 -> "&" [] n = 39 -> "'" [] n = 47 -> "/"
    [] n = 60 -> "<" [] n = 62 -> ">" [] n = 92 -> "\\"

\* the cooked value of literal source text: \xHH is the code unit 0xHH
RECURSIVE Cooked(_)
Cooked(lit) ==
  IF lit = <<>> THEN <<>>
  ELSE IF Head(lit) = "\\" /\ Len(lit) >= 4 /\ lit[2] = "x"
    THEN <<FromCharCode(16 * HexDigit(lit[3]) + HexDigit(lit[4]))>>
           \o Cooked(SubSeq(lit, 5, Len(lit)))
  ELSE <<Head(lit)>> \o Cooked(Tail(lit))

\* the source text  \x3c/script>  of lines 107 and 127
CloseTagLiteral == <<"\\", "x", "3", "c", "/", "s", "c", "r", "i", "p", "t", ">">>

ScriptOpen == <<"<", "s", "c", "r", "i", "p", "t">>

IdName == <<"i", "d">>

NonceName == <<"n", "o", "n", "c", "e">>

TypeName == <<"t", "y", "p", "e">>

SrcName == <<"s", "r", "c">>

AsyncWord == <<SP, "a", "s", "y", "n", "c">>

\* the text  name="${htmlEscapeToString(value)}"  with its leading space
Attribute(name, value) ==
  <<SP>> \o name \o <<"=", QUOT>> \o htmlEscapeToString(value) \o <<QUOT>>

\* if (options.k) on a string field: the key is present and not the empty string
Truthy(o, k) == k \in DOMAIN o /\ o[k] # <<>>

\* if (options.async): the key is present and true
TruthyFlag(o, k) == k \in DOMAIN o /\ o[k]

----------------------------------------------------------------------------
(* Input domains of the tag builders *)

AttrAlphabet == {QUOT, "&", "x"}

AttrSamples == { <<QUOT, "x">>, <<"<">>, <<">">>, <<"'">>, <<TAB, SP>> }

AttrValues == Strings(AttrAlphabet, MaxAttrLen) \cup AttrSamples

ScriptOptions == UNION {[D -> AttrValues] : D \in SUBSET {"id", "nonce", "type"}}

UrlOptions ==
  UNION { {<<>>}, {[async |-> a] : a \in Booleans},
          {[nonce |-> n] : n \in AttrValues},
          {[async |-> a, nonce |-> n] : a \in Booleans, n \in AttrValues} }

AlertOne == <<"a", "l", "e", "r", "t", "(", "1", ")">>

LiteralClose == <<"<", "/", "s", "c", "r", "i", "p", "t", ">">>

createScript(s) == [brand |-> "SafeScript", value |-> s]

createResourceUrl(s) == [brand |-> "TrustedResourceUrl", value |-> s]

Scripts ==
  { createScript(s) :
      s \in { AlertOne, <<>>, LiteralClose, <<"x">> \o LiteralClose \o <<"y">>,
              <<"a", "<", "b", ">", QUOT>> } }

Urls ==
  { createResourceUrl(s) :
      s \in { <<"/", "u">>, <<"/", "u", "?", "a", "&", "b">>, <<QUOT, ">">>,
              <<"'", "<">> } }

----------------------------------------------------------------------------
(* The tag builders and the concatenation *)

\* a plausible slip: the backslash of the closing sequence escaped once more
scriptToHtmlEscapedSlash(s, o) ==
  LET unwrappedScript == unwrapScript(s)
      t0 == ScriptOpen
      t1 == IF Truthy(o, "id") THEN t0 \o Attribute(IdName, o.id) ELSE t0
      t2 == IF Truthy(o, "nonce") THEN t1 \o Attribute(NonceName, o.nonce) ELSE t1
      t3 == IF Truthy(o, "type") THEN t2 \o Attribute(TypeName, o.type) ELSE t2
  IN  createHtml(t3 \o <<">">> \o unwrappedScript \o CloseTagLiteral)

\* a plausible slip: the id embedded without escaping
scriptToHtmlRawId(s, o) ==
  LET unwrappedScript == unwrapScript(s)
      t0 == ScriptOpen
      t1 == IF Truthy(o, "id")
              THEN t0 \o <<SP>> \o IdName \o <<"=", QUOT>> \o o.id \o <<QUOT>>
              ELSE t0
      t2 == IF Truthy(o, "nonce") THEN t1 \o Attribute(NonceName, o.nonce) ELSE t1
      t3 == IF Truthy(o, "type") THEN t2 \o Attribute(TypeName, o.type) ELSE t2
  IN  createHtml(t3 \o <<">">> \o unwrappedScript \o Cooked(CloseTagLiteral))

\* a plausible slip: the nonce tested with  !== undefined  instead of truthiness
scriptToHtmlEmptyNonce(s, o) ==
  LET unwrappedScript == unwrapScript(s)
      t0 == ScriptOpen
      t1 == IF Truthy(o, "id") THEN t0 \o Attribute(IdName, o.id) ELSE t0
      t2 == IF "nonce" \in DOMAIN o THEN t1 \o Attribute(NonceName, o.nonce) ELSE t1
      t3 == IF Truthy(o, "type") THEN t2 \o Attribute(TypeName, o.type) ELSE t2
  IN  createHtml(t3 \o <<">">> \o unwrappedScript \o Cooked(CloseTagLiteral))

scriptToHtml(s, o) ==
  LET unwrappedScript == unwrapScript(s)
      t0 == ScriptOpen
      t1 == IF Truthy(o, "id") THEN t0 \o Attribute(IdName, o.id) ELSE t0
      t2 == IF Truthy(o, "nonce") THEN t1 \o Attribute(NonceName, o.nonce) ELSE t1
      t3 == IF Truthy(o, "type") THEN t2 \o Attribute(TypeName, o.type) ELSE t2
  IN  createHtml(t3 \o <<">">> \o unwrappedScript \o Cooked(CloseTagLiteral))

scriptUrlToHtml(u, o) ==
  LET unwrappedSrc == unwrapResourceUrl(u)
      t0 == ScriptOpen \o Attribute(SrcName, unwrappedSrc)
      t1 == IF TruthyFlag(o, "async") THEN t0 \o AsyncWord ELSE t0
      t2 == IF Truthy(o, "nonce") THEN t1 \o Attribute(NonceName, o.nonce) ELSE t1
  IN  createHtml(t2 \o <<">">> \o Cooked(CloseTagLiteral))

\* Array.prototype.join with separator sep
RECURSIVE Join(_, _)
Join(ss, sep) ==
  IF ss = <<>> THEN <<>>
  ELSE IF Len(ss) = 1 THEN ss[1]
  ELSE ss[1] \o sep \o Join(Tail(ss), sep)

\* a plausible slip: join() with its default separator
concatHtmlsComma(hs) ==
  createHtml(Join([i \in 1..Len(hs) |-> unwrapHtml(hs[i])], <<",">>))

concatHtmls(hs) ==
  createHtml(Join([i \in 1..Len(hs) |-> unwrapHtml(hs[i])], <<>>))

AllOptions ==
  [preserveNewlines |-> TRUE, preserveSpaces |-> TRUE, preserveTabs |-> TRUE]

\* SafeHtml values the factories return, as operands of concatHtmls
HtmlSamples ==
  { htmlEscape(t, o) :
      t \in { <<>>, <<"<">>, <<"a", "&">>, <<LF, SP>>, <<TAB>> },
      o \in { NoOptions, AllOptions } }
    \cup { scriptToHtml(createScript(AlertOne), <<>>) }

----------------------------------------------------------------------------
(* The calls *)

NoScript == createScript(<<>>)

NoUrl == createResourceUrl(<<>>)

NoHtml == createHtml(<<>>)

\* a caller about to call one of the four exported functions
Init ==
  /\ pc = "call"
  /\ result = NoHtml
  /\ prior = <<>>
  /\ pool = {}
  /\ \/ /\ fn = "htmlEscape"
        /\ text \in Texts
        /\ options \in EscapeOptions
        /\ script = NoScript /\ src = NoUrl /\ tagOptions = <<>> /\ htmls = <<>>
     \/ /\ fn = "scriptToHtml"
        /\ script \in Scripts
        /\ tagOptions \in ScriptOptions
        /\ text = <<>> /\ options = NoOptions /\ src = NoUrl /\ htmls = <<>>
     \/ /\ fn = "scriptUrlToHtml"
        /\ src \in Urls
        /\ tagOptions \in UrlOptions
        /\ text = <<>> /\ options = NoOptions /\ script = NoScript /\ htmls = <<>>
     \/ /\ fn = "concatHtmls"
        /\ htmls \in Strings(HtmlSamples, MaxHtmls)
        /\ text = <<>> /\ options = NoOptions /\ script = NoScript
        /\ src = NoUrl /\ tagOptions = <<>>

CallHtmlEscape ==
  /\ pc = "call"
  /\ fn = "htmlEscape"
  /\ result' = htmlEscape(text, options)
  /\ pc' = "return"
  /\ UNCHANGED <<fn, text, options, script, src, tagOptions, htmls, prior, pool>>

\* the caller escapes the unwrapped result of a plain htmlEscape once more
CallHtmlEscapeAgain ==
  /\ pc = "return"
  /\ fn = "htmlEscape"
  /\ options = NoOptions
  /\ prior = <<>>
  /\ prior' = <<text>>
  /\ text' = unwrapHtml(result)
  /\ result' = htmlEscape(text', options)
  /\ UNCHANGED <<pc, fn, options, script, src, tagOptions, htmls, pool>>

CallScriptToHtml ==
  /\ pc = "call"
  /\ fn = "scriptToHtml"
  /\ result' = scriptToHtml(script, tagOptions)
  /\ pc' = "return"
  /\ UNCHANGED <<fn, text, options, script, src, tagOptions, htmls, prior, pool>>

CallScriptUrlToHtml ==
  /\ pc = "call"
  /\ fn = "scriptUrlToHtml"
  /\ result' = scriptUrlToHtml(src, tagOptions)
  /\ pc' = "return"
  /\ UNCHANGED <<fn, text, options, script, src, tagOptions, htmls, prior, pool>>

CallConcatHtmls ==
  /\ pc = "call"
  /\ fn = "concatHtmls"
  /\ result' = concatHtmls(htmls)
  /\ pc' = "return"
  /\ UNCHANGED <<fn, text, options, script, src, tagOptions, htmls, prior, pool>>

Next ==
  \/ CallHtmlEscape
  \/ CallHtmlEscapeAgain
  \/ CallScriptToHtml
  \/ CallScriptUrlToHtml
  \/ CallConcatHtmls

Spec == Init /\ [][Next]_vars

----------------------------------------------------------------------------
(* The SafeHtml values in existence, built by plain escaping and concatenation *)

TrustAlphabet == {"&", "<", "a"}

\* no SafeHtml value exists yet
InitTrust ==
  /\ pc = "return"
  /\ fn = "none"
  /\ text = <<>>
  /\ options = NoOptions
  /\ script = NoScript
  /\ src = NoUrl
  /\ tagOptions = <<>>
  /\ htmls = <<>>
  /\ result = NoHtml
  /\ prior = <<>>
  /\ pool = {}

TrustEscape ==
  \E t \in Strings(TrustAlphabet, MaxTrustLen) :
    /\ Cardinality(pool) < MaxPool
    /\ fn' = "htmlEscape"
    /\ text' = t
    /\ htmls' = <<>>
    /\ result' = htmlEscape(t, options)
    /\ pool' = pool \cup {result'}
    /\ UNCHANGED <<pc, options, script, src, tagOptions, prior>>

TrustConcat ==
  \E hs \in Strings(pool, MaxHtmls) :
    /\ Cardinality(pool) < MaxPool
    /\ fn' = "concatHtmls"
    /\ text' = <<>>
    /\ htmls' = hs
    /\ result' = concatHtmls(hs)
    /\ pool' = pool \cup {result'}
    /\ UNCHANGED <<pc, options, script, src, tagOptions, prior>>

NextTrust == TrustEscape \/ TrustConcat

SpecTrust == InitTrust /\ [][NextTrust]_vars

----------------------------------------------------------------------------
(* Vocabulary of the properties *)

R == unwrapHtml(result)

Returned(f) == pc = "return" /\ fn = f

StartsAt(s, i, pat) ==
  /\ i >= 1
  /\ i + Len(pat) - 1 <= Len(s)
  /\ SubSeq(s, i, i + Len(pat) - 1) = pat

Contains(s, pat) == \E i \in 1..Len(s) : StartsAt(s, i, pat)

Occurrences(s, pat) == Cardinality({i \in 1..Len(s) : StartsAt(s, i, pat)})

Count(s, c) == Cardinality({i \in 1..Len(s) : s[i] = c})

EndsWith(s, pat) == StartsAt(s, Len(s) - Len(pat) + 1, pat)

IndexOf(s, pat) ==
  IF Contains(s, pat)
    THEN CHOOSE i \in 1..Len(s) :
           StartsAt(s, i, pat) /\ \A j \in 1..(i - 1) : ~StartsAt(s, j, pat)
    ELSE 0

EntityOf(c) ==
  CASE c = "&" -> <<"&", "a", "m", "p", ";">>
    [] c = "<" -> <<"&", "l", "t", ";">>
    [] c = ">" -> <<"&", "g", "t", ";">>
    [] c = QUOT -> <<"&", "q", "u", "o", "t", ";">>
    [] c = "'" -> <<"&", "a", "p", "o", "s", ";">>
    [] OTHER -> <<c>>

Entities == {EntityOf(c) : c \in Structural}

\* each structural character by its entity, every other character as it is
RECURSIVE Entitised(_)
Entitised(t) ==
  IF t = <<>> THEN <<>> ELSE EntityOf(Head(t)) \o Entitised(Tail(t))

\* no literal < > " ' and every & starts one of the five entities
EscapeSafe(s) ==
  \A i \in 1..Len(s) :
    /\ s[i] \notin {"<", ">", QUOT, "'"}
    /\ s[i] = "&" => \E e \in Entities : StartsAt(s, i, e)

HasStructural(t) == \E i \in 1..Len(t) : t[i] \in Structural

\* newline sequences of t: every LF, and every CR that no LF follows
NewlineSequences(t) ==
  Count(t, LF)
    + Cardinality({i \in 1..Len(t) : t[i] = CR /\ ~(i < Len(t) /\ t[i + 1] = LF)})

\* maximal runs of tabs of t
TabRuns(t) ==
  Cardinality({i \in 1..Len(t) : t[i] = TAB /\ (i = 1 \/ t[i - 1] # TAB)})

\* the characters of t at i and i+1 are c (one of cs) and a space
FollowedBySpace(t, cs) ==
  {i \in 1..Len(t) : t[i] \in cs /\ i < Len(t) /\ t[i + 1] = SP}

OnlySpaces ==
  [preserveNewlines |-> FALSE, preserveSpaces |-> TRUE, preserveTabs |-> FALSE]

OnlyNewlines ==
  [preserveNewlines |-> TRUE, preserveSpaces |-> FALSE, preserveTabs |-> FALSE]

OnlyTabs ==
  [preserveNewlines |-> FALSE, preserveSpaces |-> FALSE, preserveTabs |-> TRUE]

----------------------------------------------------------------------------
\* C1: htmlEscape with no options returns the text with each of & < > " '
\* replaced by its entity and every other character unchanged; the result
\* has no literal < > " ' and each of its & starts one of the five entities.
C1_EscapedTextIsSafe ==
  (Returned("htmlEscape") /\ options = NoOptions) =>
    /\ R = Entitised(text)
    /\ EscapeSafe(R)

C1_Witness ==
  /\ Returned("htmlEscape")
  /\ options = NoOptions
  /\ text = <<"&", "<", "'">>
  /\ R = <<"&", "a", "m", "p", ";", "&", "l", "t", ";", "&", "a", "p", "o", "s", ";">>

----------------------------------------------------------------------------
\* C2 as stated: the output of scriptToHtml and of scriptUrlToHtml contains
\* no literal </script> substring.
C2_NoLiteralCloseTag ==
  (Returned("scriptToHtml") \/ Returned("scriptUrlToHtml")) =>
    ~Contains(R, LiteralClose)

\* C2 as amended: the output of both builders ends with the literal closing
\* tag </script> (the \x3c of the source is the character <); the payload
\* is embedded as it is, so the output of scriptToHtml has one </script>
\* more than the payload, that of scriptUrlToHtml exactly one, and
\* alert(1) with no options gives <script>alert(1)</script>.
C2_LiteralCloseTagEmitted ==
  /\ Returned("scriptToHtml") =>
       /\ EndsWith(R, LiteralClose)
       /\ Count(R, "\\") = Count(unwrapScript(script), "\\")
       /\ Occurrences(R, LiteralClose)
            = 1 + Occurrences(unwrapScript(script), LiteralClose)
       /\ (script = createScript(AlertOne) /\ DOMAIN tagOptions = {}) =>
            R = ScriptOpen \o <<">">> \o AlertOne \o LiteralClose
  /\ Returned("scriptUrlToHtml") =>
       /\ EndsWith(R, LiteralClose)
       /\ Count(R, "\\") = 0
       /\ Occurrences(R, LiteralClose) = 1

C2_Witness ==
  /\ Returned("scriptToHtml")
  /\ unwrapScript(script) = <<"x">> \o LiteralClose \o <<"y">>
  /\ DOMAIN tagOptions = {}
  /\ Occurrences(R, LiteralClose) = 2

----------------------------------------------------------------------------
\* the opening tag: the output up to its first literal >
OpenTag(r) ==
  SubSeq(r, 1, CHOOSE i \in 1..Len(r) :
                 r[i] = ">" /\ \A j \in 1..(i - 1) : r[j] # ">")

AttrName(k) ==
  CASE k = "id" -> IdName [] k = "nonce" -> NonceName
    [] k = "type" -> TypeName [] k = "src" -> SrcName

AttrStart(k) == <<SP>> \o AttrName(k) \o <<"=", QUOT>>

Emitted(o) == {k \in {"id", "nonce", "type"} : k \in DOMAIN o /\ o[k] # <<>>}

\* C3: every id, nonce, type, URL is embedded with its five structural
\* characters replaced by entities: the opening tag has no literal " but the
\* two delimiters of each attribute, the first literal > of the output ends
\* the opening tag, and id = "x gives id="&quot;x".
C3_AttributesEscaped ==
  /\ Returned("scriptToHtml") =>
       LET open == OpenTag(R)
       IN  /\ Count(open, QUOT) = 2 * Cardinality(Emitted(tagOptions))
           /\ SubSeq(R, Len(open) + 1, Len(R))
                = unwrapScript(script) \o LiteralClose
           /\ \A k \in Emitted(tagOptions) :
                Contains(open, AttrStart(k) \o Entitised(tagOptions[k]) \o <<QUOT>>)
           /\ ("id" \in DOMAIN tagOptions /\ tagOptions.id = <<QUOT, "x">>) =>
                Contains(open, AttrStart("id")
                                 \o <<"&", "q", "u", "o", "t", ";", "x", QUOT>>)
  /\ Returned("scriptUrlToHtml") =>
       LET open == OpenTag(R)
       IN  /\ Count(open, QUOT) = 2 * (1 + Cardinality(Emitted(tagOptions)))
           /\ SubSeq(R, Len(open) + 1, Len(R)) = LiteralClose
           /\ StartsAt(open, Len(ScriptOpen) + 1,
                AttrStart("src") \o Entitised(unwrapResourceUrl(src)) \o <<QUOT>>)
           /\ \A k \in Emitted(tagOptions) :
                Contains(open, AttrStart(k) \o Entitised(tagOptions[k]) \o <<QUOT>>)

C3_Witness ==
  /\ Returned("scriptToHtml")
  /\ DOMAIN tagOptions = {"id"}
  /\ tagOptions.id = <<QUOT, "x">>
  /\ StartsAt(R, 1, ScriptOpen \o AttrStart("id")
                      \o <<"&", "q", "u", "o", "t", ";", "x", QUOT, ">">>)

----------------------------------------------------------------------------
\* the summed length of the first n operands
RECURSIVE LenBefore(_, _)
LenBefore(hs, n) ==
  IF n = 0 THEN 0 ELSE LenBefore(hs, n - 1) + Len(unwrapHtml(hs[n]))

\* C4: the result of concatHtmls is the operands' texts one after the other
\* in input order, nothing between them and no character changed.
C4_ConcatIsJuxtaposition ==
  Returned("concatHtmls") =>
    /\ Len(R) = LenBefore(htmls, Len(htmls))
    /\ \A n \in 1..Len(htmls) :
         \A j \in 1..Len(unwrapHtml(htmls[n])) :
           R[LenBefore(htmls, n - 1) + j] = unwrapHtml(htmls[n])[j]

C4_Witness ==
  /\ Returned("concatHtmls")
  /\ Len(htmls) = 3
  /\ unwrapHtml(htmls[1]) = BR \o NBSP
  /\ unwrapHtml(htmls[2]) = <<"a", "&", "a", "m", "p", ";">>
  /\ unwrapHtml(htmls[3]) = <<"&", "l", "t", ";">>
  /\ R = BR \o NBSP \o <<"a", "&", "a", "m", "p", ";", "&", "l", "t", ";">>

----------------------------------------------------------------------------
\* C5: every SafeHtml value built from plain htmlEscape calls and concatHtmls
\* calls over earlier values has no literal < > " ' and each of its &
\* starts one of the five entities.
C5_TrustClosed == \A h \in pool : EscapeSafe(unwrapHtml(h))

C5_Witness ==
  /\ fn = "concatHtmls"
  /\ Len(htmls) = 2
  /\ unwrapHtml(htmls[1]) = <<"&", "a", "m", "p", ";">>
  /\ unwrapHtml(htmls[2]) = <<"a">>
  /\ result \in pool
  /\ Cardinality(pool) = 3

----------------------------------------------------------------------------
\* e2 is e1 with each & followed by the four characters amp;
RECURSIVE AmpDoubled(_, _)
AmpDoubled(e1, e2) ==
  IF e1 = <<>> THEN e2 = <<>>
  ELSE IF Head(e1) = "&"
    THEN /\ StartsAt(e2, 1, <<"&", "a", "m", "p", ";">>)
         /\ AmpDoubled(Tail(e1), SubSeq(e2, 6, Len(e2)))
  ELSE /\ e2 # <<>>
       /\ Head(e2) = Head(e1)
       /\ AmpDoubled(Tail(e1), Tail(e2))

\* C6: escaping the escaped text of s once more changes it exactly when s
\* has a structural character, and then turns every & into &amp;.
C6_EscapeNotIdempotent ==
  (Returned("htmlEscape") /\ prior # <<>>) =>
    /\ AmpDoubled(text, R)
    /\ (R = text) <=> ~HasStructural(prior[1])
    /\ HasStructural(prior[1]) => Len(R) > Len(text)
    /\ prior[1] = <<"<">> => R = <<"&", "a", "m", "p", ";", "l", "t", ";">>

C6_Witness ==
  /\ Returned("htmlEscape")
  /\ prior = << <<"<">> >>
  /\ text = <<"&", "l", "t", ";">>
  /\ R = <<"&", "a", "m", "p", ";", "l", "t", ";">>

----------------------------------------------------------------------------
\* the space at index i of e follows a boundary: the start, CR, LF, TAB, or
\* a space that is not rewritten itself
RECURSIVE Rewritten(_, _)
Rewritten(e, i) ==
  /\ e[i] = SP
  /\ \/ i = 1
     \/ e[i - 1] \in {CR, LF, TAB}
     \/ e[i - 1] = SP /\ ~Rewritten(e, i - 1)

RECURSIVE SpacesRewritten(_, _)
SpacesRewritten(e, n) ==
  IF n = 0 THEN <<>>
  ELSE SpacesRewritten(e, n - 1) \o (IF Rewritten(e, n) THEN NBSP ELSE <<e[n]>>)

\* C7: with preserveSpaces only, exactly the spaces that follow a boundary
\* become &#160;, the output has no two adjacent spaces and no space at its
\* start or right after CR, LF or TAB, and a, two spaces, b gives a &#160;b.
C7_EverySecondSpace ==
  (Returned("htmlEscape") /\ options = OnlySpaces) =>
    /\ R = SpacesRewritten(Entitised(text), Len(Entitised(text)))
    /\ ~Contains(R, <<SP, SP>>)
    /\ ~StartsAt(R, 1, <<SP>>)
    /\ \A c \in {CR, LF, TAB} : ~Contains(R, <<c, SP>>)
    /\ text = <<"a", SP, SP, "b">> => R = <<"a", SP>> \o NBSP \o <<"b">>

C7_Witness ==
  /\ Returned("htmlEscape")
  /\ options = OnlySpaces
  /\ text = <<"a", SP, SP, SP, SP, "b">>
  /\ R = <<"a", SP>> \o NBSP \o <<SP>> \o NBSP \o <<"b">>

----------------------------------------------------------------------------
\* C8: with preserveNewlines the output has no CR and no LF and one <br>
\* for each newline sequence of the text (CR LF is one sequence); with that
\* option alone nothing else changes, and a LF b gives a<br>b.
C8_OneBreakPerNewline ==
  (Returned("htmlEscape") /\ options.preserveNewlines) =>
    /\ Count(R, CR) = 0
    /\ Count(R, LF) = 0
    /\ Occurrences(R, BR) = NewlineSequences(text)
    /\ options = OnlyNewlines =>
         /\ Len(R) = Len(Entitised(text)) - Count(text, CR) - Count(text, LF)
                       + Len(BR) * NewlineSequences(text)
         /\ text = <<"a", LF, "b">> => R = <<"a">> \o BR \o <<"b">>

C8_Witness ==
  /\ Returned("htmlEscape")
  /\ options = OnlyNewlines
  /\ text = <<CR, LF, CR>>
  /\ R = BR \o BR

----------------------------------------------------------------------------
\* the opening tag of a scriptUrlToHtml output after its src attribute
AfterSrc(open) ==
  LET q == CHOOSE i \in 1..Len(open) :
             open[i] = QUOT /\ Count(SubSeq(open, 1, i), QUOT) = 2
  IN  SubSeq(open, q + 1, Len(open))

Rank(k) == CASE k = "id" -> 1 [] k = "nonce" -> 2 [] k = "type" -> 3

\* C9: scriptToHtml emits id, nonce, type in this order and scriptUrlToHtml
\* src, the bare word async, nonce; an option that is absent, empty or
\* false leaves no trace, no attribute is empty, and with no options the
\* outputs are <script>payload</script> and <script src="URL"></script>.
C9_AttributeOrder ==
  /\ Returned("scriptToHtml") =>
       LET open == OpenTag(R)
       IN  /\ StartsAt(open, 1, ScriptOpen)
           /\ \A k \in {"id", "nonce", "type"} :
                Occurrences(open, AttrStart(k))
                  = IF k \in Emitted(tagOptions) THEN 1 ELSE 0
           /\ \A k1, k2 \in Emitted(tagOptions) :
                Rank(k1) < Rank(k2) =>
                  IndexOf(open, AttrStart(k1)) < IndexOf(open, AttrStart(k2))
           /\ ~Contains(open, <<"=", QUOT, QUOT>>)
           /\ Emitted(tagOptions) = {} =>
                R = ScriptOpen \o <<">">> \o unwrapScript(script) \o LiteralClose
  /\ Returned("scriptUrlToHtml") =>
       LET open == OpenTag(R)
           rest == AfterSrc(open)
           async == "async" \in DOMAIN tagOptions /\ tagOptions.async
       IN  /\ StartsAt(open, 1, ScriptOpen \o AttrStart("src"))
           /\ Occurrences(rest, AsyncWord) = IF async THEN 1 ELSE 0
           /\ async => StartsAt(rest, 1, AsyncWord)
           /\ ~Contains(rest, AsyncWord \o <<"=">>)
           /\ Occurrences(rest, AttrStart("nonce"))
                = IF "nonce" \in Emitted(tagOptions) THEN 1 ELSE 0
           /\ (async /\ "nonce" \in Emitted(tagOptions)) =>
                IndexOf(rest, AsyncWord) < IndexOf(rest, AttrStart("nonce"))
           /\ ~Contains(rest, <<"=", QUOT, QUOT>>)
           /\ (~async /\ Emitted(tagOptions) = {}) =>
                R = ScriptOpen \o AttrStart("src")
                      \o Entitised(unwrapResourceUrl(src)) \o <<QUOT, ">">>
                      \o LiteralClose

C9_Witness ==
  /\ Returned("scriptToHtml")
  /\ DOMAIN tagOptions = {"id", "nonce", "type"}
  /\ tagOptions.id = <<"x">>
  /\ tagOptions.nonce = <<>>
  /\ tagOptions.type = <<"&">>
  /\ StartsAt(R, 1, ScriptOpen \o AttrStart("id") \o <<"x", QUOT>>
                      \o AttrStart("type") \o <<"&", "a", "m", "p", ";", QUOT, ">">>)

----------------------------------------------------------------------------
\* C10: the steps run in the order escaping, spaces, newlines, tabs: a
\* space right after a newline sequence or a tab run becomes &#160; behind
\* the <br> or the closing </span>, and every < of the output starts a <br>,
\* an opening span or a closing span, one per newline sequence or tab run.
C10_FixedStepOrder ==
  Returned("htmlEscape") =>
    /\ \A i \in 1..Len(R) :
         R[i] = "<" =>
           \/ options.preserveNewlines /\ StartsAt(R, i, BR)
           \/ options.preserveTabs /\ StartsAt(R, i, SpanOpen)
           \/ options.preserveTabs /\ StartsAt(R, i, SpanClose)
    /\ options.preserveNewlines => Occurrences(R, BR) = NewlineSequences(text)
    /\ options.preserveTabs =>
         /\ Occurrences(R, SpanOpen) = TabRuns(text)
         /\ Occurrences(R, SpanClose) = TabRuns(text)
    /\ (options.preserveSpaces /\ options.preserveNewlines) =>
         Occurrences(R, BR \o NBSP) = Cardinality(FollowedBySpace(text, {CR, LF}))
    /\ (options.preserveSpaces /\ options.preserveTabs) =>
         Occurrences(R, SpanClose \o NBSP) = Cardinality(FollowedBySpace(text, {TAB}))
    /\ (options = OnlyTabs /\ text = <<"a", TAB, TAB, "b">>) =>
         R = <<"a">> \o SpanOpen \o <<TAB, TAB>> \o SpanClose \o <<"b">>

C10_Witness ==
  /\ Returned("htmlEscape")
  /\ options = AllOptions
  /\ text = <<LF, SP, TAB, SP>>
  /\ R = BR \o NBSP \o SpanOpen \o <<TAB>> \o SpanClose \o NBSP

====
